---- MODULE Spec2Model ----
(***************************************************************************)
(* Inbound SMS reply polling and unsubscribe pipeline of the AQIE notify   *)
(* service: createSmsReplyService (sms-reply.service.js), the sms-reply    *)
(* cron plugin and the manual trigger GET /process-sms-replies.            *)
(*                                                                         *)
(* Every run of pollAndProcessReplies is a process whose position (pc) is  *)
(* the await it is suspended at: the provider fetch, the ledger lookup, the *)
(* backend POST or the ledger insert.  The synchronous code between two    *)
(* awaits belongs to the action of the await that precedes it.  Dates      *)
(* (created_at, receivedAt, processedAt) are copied by the code and never  *)
(* read, so the records of the model leave them out.                       *)
(*                                                                         *)
(* The second part is the verification store of the subscribe endpoints:   *)
(* UserContactService (user-contact-service.js), whose validateSecret is a *)
(* process per call, suspended at its findOne or at its updateOne.         *)
(***************************************************************************)
EXTENDS Integers, Sequences, FiniteSets, TLC

\* ------------------------------------------------------------------ bounds
MaxFeed == 2
MaxRuns == 2

MaxLen == 5
RetrySlots == 1
MaxCalls == 2
MaxStores == 2
MaxClock == 2
Runs == 1..MaxRuns

\* config notify.smsReplyPollIntervalMinutes
IntervalMinutes == 1

\* ----------------------------------------------------------- text helpers
\* Strings the code inspects character by character are tuples of
\* one-character strings.
Plus == "+"

\* The inbound texts the provider can hold: provider id, sender number as
\* the provider reports it, and content as the user typed it.
InboundTexts ==
  { [id |-> "m1", user_number |-> <<"4", "4", "1">>,
     content |-> <<" ", "S", "T", "O", "P", " ">>],
    [id |-> "m2", user_number |-> <<"+", "4", "4", "1">>,
     content |-> <<"s", "t", "o", "p">>],
    [id |-> "m3", user_number |-> <<"+", "4", "4", "2">>,
     content |-> <<"S", "t", "o", "p">>],
    [id |-> "m4", user_number |-> <<"4", "4", "2">>,
     content |-> <<"Y", "E", "S">>] }

IsSpace(c) == c \in {" ", "\t", "\n"}

ToLowerChar(c) ==
  CASE c = "S" -> "s"
    [] c = "T" -> "t"
    [] c = "O" -> "o"
    [] c = "P" -> "p"
    [] c = "Y" -> "y"
    [] c = "E" -> "e"
    [] c = "H" -> "h"
    [] c = "L" -> "l"
    [] OTHER -> c

ToLowerCase(s) == [k \in 1..Len(s) |-> ToLowerChar(s[k])]

RECURSIVE TrimStart(_)
TrimStart(s) ==
  IF s # <<>> /\ IsSpace(Head(s)) THEN TrimStart(Tail(s)) ELSE s

RECURSIVE TrimEnd(_)
TrimEnd(s) ==
  IF s # <<>> /\ IsSpace(s[Len(s)]) THEN TrimEnd(SubSeq(s, 1, Len(s) - 1)) ELSE s

Trim(s) == TrimEnd(TrimStart(s))

\* faulty variant: the sender number is used as the provider reports it
NormalizePhone_raw(user_number) == user_number

\* processMessage: msg.user_number.startsWith('+') ? msg.user_number : `+${...}`
NormalizePhone(user_number) ==
  IF user_number # <<>> /\ Head(user_number) = Plus
  THEN user_number
  ELSE <<Plus>> \o user_number

\* processMessage: msg.content.trim().toLowerCase()
NormalizeContent(content) == ToLowerCase(Trim(content))

\* faulty variant: the content is lower-cased but not trimmed
IsStop_noTrim(content) == ToLowerCase(content) = <<"s", "t", "o", "p">>

\* processMessage: content === 'stop'
IsStop(content) == NormalizeContent(content) = <<"s", "t", "o", "p">>

\* ------------------------------------------------------------ the ledger
\* faulty variant: the document is stored without its message id
AuditRecord_noId(msg, phoneNumber, status) ==
  [messageId |-> "",
   phoneNumber |-> phoneNumber,
   content |-> msg.content,
   status |-> status]

\* faulty variant: every document is stored with status ignored
AuditRecord_ignored(msg, phoneNumber, status) ==
  [messageId |-> msg.id,
   phoneNumber |-> phoneNumber,
   content |-> msg.content,
   status |-> "ignored"]

\* db.collection('sms_replies'): the documents in insertion order.
AuditRecord(msg, phoneNumber, status) ==
  [messageId |-> msg.id,
   phoneNumber |-> phoneNumber,
   content |-> msg.content,
   status |-> status]

NoRecord == [messageId |-> "", phoneNumber |-> <<>>, content |-> <<>>, status |-> "none"]

\* faulty variant: the lookup never finds a document
isProcessed_never(ledger, messageId) == FALSE

\* isProcessed: !!(await findOne({ messageId }))
isProcessed(ledger, messageId) ==
  \E k \in DOMAIN ledger : ledger[k].messageId = messageId

\* faulty variant: sms_replies without its unique index
DuplicateKey_noIndex(ledger, doc) == FALSE

\* the unique index { messageId: 1 } of sms_replies: insertOne raises E11000
DuplicateKey(ledger, doc) ==
  \E k \in DOMAIN ledger : ledger[k].messageId = doc.messageId

\* ------------------------------------------------------ provider answers
\* response.data of getReceivedTexts: received_text_messages may be absent
ReceivedTexts(present, list) == [present |-> present, list |-> list]

\* const messages = response.data.received_text_messages || []
MessagesOf(data) == IF data.present THEN data.list ELSE <<>>

\* ------------------------------------------------------- backend answers
NetworkError == [status |-> 0, json |-> FALSE]

\* an answer of POST /opt-out-alert: its HTTP status and whether its body
\* parses as JSON; NetworkError is a fetch() that rejects.
Responses == [status : {200, 404, 500}, json : BOOLEAN] \cup {NetworkError}

\* faulty variant: every answer but 404 counts as a successful opt-out
StopOutcome_lenient(resp) ==
  IF resp = NetworkError THEN "throw"
  ELSE IF ~resp.json THEN "throw"
  ELSE IF resp.status = 404 THEN "user_not_found"
  ELSE "unsubscribed"

\* handleStop after the fetch: response.json() first, then the status.
StopOutcome(resp) ==
  IF resp = NetworkError THEN "throw"
  ELSE IF ~resp.json THEN "throw"
  ELSE IF resp.status = 200 THEN "unsubscribed"
  ELSE IF resp.status = 404 THEN "user_not_found"
  ELSE "throw"

\* faulty variant: every recorded message adds its number to the set
TrackPhone_always(phones, doc) == phones \cup {doc.phoneNumber}

\* faulty variant: the phone number is never tracked
TrackPhone_never(phones, doc) == phones

\* handleStop: processedPhones.add(phoneNumber) after the two successful
\* inserts only; markProcessed never touches the set.
TrackPhone(phones, doc) ==
  IF doc.status \in {"unsubscribed", "user_not_found"}
  THEN phones \cup {doc.phoneNumber}
  ELSE phones

\* ------------------------------------------------------------------ state
\* --------------------------------------------------- verification store
\* contacts as the store keeps them (normalized numbers) and secrets
Contacts == {"+447123456789", "+447987654321"}
Secrets == {"12345", "54321"}

\* the calls of validateSecret, and the values of new Date()
Calls == 1..MaxCalls
Times == 0..MaxClock

\* findOne resolving to null
NoDocument ==
  [contact |-> "", secret |-> "", expiryTime |-> 0, validated |-> FALSE,
   updatedAt |-> 0]

\* the document storeVerificationDetails builds; createdAt is never read
NewDocument(contact, secret, expiryTime, t) ==
  [contact |-> contact, secret |-> secret, expiryTime |-> expiryTime,
   validated |-> FALSE, updatedAt |-> t]

NoValidation == [valid |-> FALSE, error |-> "pending"]

\* faulty variant: the expiry is looked at before the secret
ValidationError_expiryFirst(doc, secret, t) ==
  IF doc = NoDocument THEN "Contact Detail not found"
  ELSE IF t > doc.expiryTime THEN "Secret has expired"
  ELSE IF doc.secret # secret THEN "Invalid secret"
  ELSE IF doc.validated THEN "Secret has already been used"
  ELSE "null"

\* the chain of early returns of validateSecret after its findOne, at time t:
\* the error of the first check that fails, "null" when none does
ValidationError(doc, secret, t) ==
  IF doc = NoDocument THEN "Contact Detail not found"
  ELSE IF doc.secret # secret THEN "Invalid secret"
  ELSE IF t > doc.expiryTime THEN "Secret has expired"
  ELSE IF doc.validated THEN "Secret has already been used"
  ELSE "null"

\* updateOne's modifiedCount for $set {validated: true, updatedAt: t}: a
\* document is counted when the update changes one of its fields
ModifiedCount(stored, t) ==
  IF stored = NoDocument THEN 0
  ELSE IF stored.validated /\ stored.updatedAt = t THEN 0
  ELSE 1

VARIABLES
  received_text_messages, \* the provider's inbound feed, in return order
  sms_replies,            \* the ledger collection, in insertion order
  smsReplyPollEnabled,    \* config notify.smsReplyPollEnabled
  pollJob,                \* the setInterval timer: "none", "armed", "cleared"
  stopped,                \* the server 'stop' event has happened
  pc,                     \* per run: the await the run is suspended at
  origin,                 \* per run: "tick" or "manual"
  messages,               \* per run: const messages
  idx,                    \* per run: position of msg in messages
  newMessages,            \* per run: let newMessages
  alreadyProcessed,       \* per run: let alreadyProcessed
  processedPhones,        \* per run: const processedPhones = new Set()
  pending,                \* per run: the document of the insertOne in flight
  error,                  \* per run: the error pollAndProcessReplies threw
  result,                 \* per run: the value pollAndProcessReplies returned
  log,                    \* history: per run, its I/O calls in order
  doneBefore,             \* history: per run, the runs that had returned
                          \* when it started
  leftBehind,             \* history: per run, the ids failed runs had left
                          \* un-ledgered when it started
  intervalMs,             \* the period pollJob was armed with
  stopListeners,          \* the listeners the plugin has put on the 'stop' event
  freshAtStop,            \* history: the runs that were awaiting their fetch
                          \* when the server stopped
  user_contact_details,   \* the collection: per contact its document, if any
  now,                    \* the clock new Date() reads
  validatePc,             \* per call of validateSecret: the await it is at
  validateArgs,           \* per call: contact and secret it was given
  document,               \* per call: const document, what findOne returned
  validateResult,         \* per call: the value validateSecret returned
  storeLog,               \* history: the storeVerificationDetails calls made
  versionRead             \* history: per call, how many stores had been made
                          \* for its contact when its findOne read

smsVars ==
  <<received_text_messages, sms_replies, smsReplyPollEnabled, pollJob, stopped,
    pc, origin, messages, idx, newMessages, alreadyProcessed, processedPhones,
    pending, error, result, log, doneBefore, leftBehind, intervalMs,
    stopListeners,
    freshAtStop>>

otpVars ==
  <<user_contact_details, now, validatePc, validateArgs, document,
    validateResult, storeLog, versionRead>>

vars == <<smsVars, otpVars>>

\* the verification store before any call: no document, no call in flight
StoreAtRest ==
  /\ user_contact_details = [c \in Contacts |-> NoDocument]
  /\ now = 0
  /\ validatePc = [c \in Calls |-> "idle"]
  /\ validateArgs = [c \in Calls |-> [contact |-> "", secret |-> ""]]
  /\ document = [c \in Calls |-> NoDocument]
  /\ validateResult = [c \in Calls |-> NoValidation]
  /\ storeLog = <<>>
  /\ versionRead = [c \in Calls |-> 0]

cronVars ==
  <<smsReplyPollEnabled, pollJob, intervalMs, stopListeners, stopped, freshAtStop>>
loopVars == <<pc, idx, newMessages, alreadyProcessed, error, result>>

NoResult == [total |-> -1, processed |-> -1]

\* history only: whether the ledger holds a document of this message id
HasRecord(id) == \E k \in DOMAIN sms_replies : sms_replies[k].messageId = id

Event(op, id, phone, status, http, out) ==
  [op |-> op, id |-> id, phone |-> phone, status |-> status, http |-> http,
   out |-> out]

Logged(r, e) == log' = [log EXCEPT ![r] = Append(@, e)]

\* faulty variant: the enabled flag is not looked at
register_always(enabled) ==
  [pollJob |-> "armed",
   intervalMs |-> IntervalMinutes * 60 * 1000,
   stopListeners |-> 1]

\* sms-reply-cron register(): returns at once when polling is disabled, else
\* one setInterval(callback, intervalMs) and one server.events.on('stop', ...)
register(enabled) ==
  IF ~enabled
  THEN [pollJob |-> "none", intervalMs |-> 0, stopListeners |-> 0]
  ELSE [pollJob |-> "armed",
        intervalMs |-> IntervalMinutes * 60 * 1000,
        stopListeners |-> 1]

\* the state after the plugin was registered
Init ==
  /\ received_text_messages = <<>>
  /\ sms_replies = <<>>
  /\ smsReplyPollEnabled \in BOOLEAN
  /\ pollJob = register(smsReplyPollEnabled).pollJob
  /\ intervalMs = register(smsReplyPollEnabled).intervalMs
  /\ stopListeners = register(smsReplyPollEnabled).stopListeners
  /\ stopped = FALSE
  /\ pc = [r \in Runs |-> "idle"]
  /\ origin = [r \in Runs |-> "none"]
  /\ messages = [r \in Runs |-> <<>>]
  /\ idx = [r \in Runs |-> 0]
  /\ newMessages = [r \in Runs |-> 0]
  /\ alreadyProcessed = [r \in Runs |-> 0]
  /\ processedPhones = [r \in Runs |-> {}]
  /\ pending = [r \in Runs |-> NoRecord]
  /\ error = [r \in Runs |-> "none"]
  /\ result = [r \in Runs |-> NoResult]
  /\ log = [r \in Runs |-> <<>>]
  /\ doneBefore = [r \in Runs |-> {}]
  /\ leftBehind = [r \in Runs |-> {}]
  /\ freshAtStop = {}
  /\ StoreAtRest

\* ------------------------------------------------------- control helpers
\* faulty variant: the skipped messages are counted in processed as well
LoopFrom_countAll(r, msgs, k, nm, ap) ==
  /\ newMessages' = [newMessages EXCEPT ![r] = nm]
  /\ alreadyProcessed' = [alreadyProcessed EXCEPT ![r] = ap]
  /\ error' = error
  /\ IF k <= Len(msgs)
     THEN /\ pc' = [pc EXCEPT ![r] = "lookup"]
          /\ idx' = [idx EXCEPT ![r] = k]
          /\ result' = result
     ELSE /\ pc' = [pc EXCEPT ![r] = "done"]
          /\ idx' = [idx EXCEPT ![r] = k]
          /\ result' = [result EXCEPT ![r] =
                          [total |-> Len(msgs), processed |-> nm + ap]]

\* pollAndProcessReplies: the for loop reaches element k of msgs, or ends and
\* returns { total: messages.length, processed: newMessages }
LoopFrom(r, msgs, k, nm, ap) ==
  /\ newMessages' = [newMessages EXCEPT ![r] = nm]
  /\ alreadyProcessed' = [alreadyProcessed EXCEPT ![r] = ap]
  /\ error' = error
  /\ IF k <= Len(msgs)
     THEN /\ pc' = [pc EXCEPT ![r] = "lookup"]
          /\ idx' = [idx EXCEPT ![r] = k]
          /\ result' = result
     ELSE /\ pc' = [pc EXCEPT ![r] = "done"]
          /\ idx' = [idx EXCEPT ![r] = k]
          /\ result' = [result EXCEPT ![r] = [total |-> Len(msgs), processed |-> nm]]

\* faulty variant: the call is not awaited, the loop goes on with the next message
Await_noWait(r, p) ==
  LoopFrom(r, messages[r], idx[r] + 1, newMessages[r] + 1, alreadyProcessed[r])

\* the run suspends at the next await of the same message
Await(r, p) ==
  /\ pc' = [pc EXCEPT ![r] = p]
  /\ UNCHANGED <<idx, newMessages, alreadyProcessed, error, result>>

\* faulty variant: the error is swallowed and the loop goes on with the next message
Throw_swallow(r, e) ==
  LoopFrom(r, messages[r], idx[r] + 1, newMessages[r], alreadyProcessed[r])

\* faulty variant: a call that failed is made once more before the run gives up
Throw_retry(r, e) ==
  IF error[r] = "none"
  THEN /\ error' = [error EXCEPT ![r] = "retrying"]
       /\ UNCHANGED <<pc, idx, newMessages, alreadyProcessed, result>>
  ELSE /\ pc' = [pc EXCEPT ![r] = "failed"]
       /\ error' = [error EXCEPT ![r] = e]
       /\ UNCHANGED <<idx, newMessages, alreadyProcessed, result>>

\* an error leaves the for loop through catch (error) { ...; throw error }
Throw(r, e) ==
  /\ pc' = [pc EXCEPT ![r] = "failed"]
  /\ error' = [error EXCEPT ![r] = e]
  /\ UNCHANGED <<idx, newMessages, alreadyProcessed, result>>

\* --------------------------------------------------------------- provider
\* a new inbound text reaches the provider
ProviderReceive ==
  /\ Len(received_text_messages) < MaxFeed
  /\ \E msg \in InboundTexts :
       /\ \A k \in DOMAIN received_text_messages :
            received_text_messages[k].id # msg.id
       /\ received_text_messages' = Append(received_text_messages, msg)
  /\ UNCHANGED <<sms_replies, cronVars, loopVars, origin, messages,
                 processedPhones, pending, log, doneBefore,
                 leftBehind>>

\* -------------------------------------------------------------- scheduler
\* history only: the ids of the messages a failed run had fetched and that
\* have no ledger record
LeftUnledgered ==
  {id \in UNION {{messages[q][k].id : k \in DOMAIN messages[q]} :
                   q \in {f \in Runs : pc[f] = "failed"}} : ~HasRecord(id)}

\* faulty variant: a run starts only when no other run is in flight
StartRun_serial(r, o) ==
  /\ pc[r] = "idle"
  /\ \A q \in Runs : pc[q] \in {"idle", "done", "failed"}
  /\ \A q \in Runs : q < r => pc[q] # "idle"
  /\ pc' = [pc EXCEPT ![r] = "fetch"]
  /\ origin' = [origin EXCEPT ![r] = o]
  /\ doneBefore' = [doneBefore EXCEPT ![r] = {q \in Runs : pc[q] = "done"}]
  /\ leftBehind' = [leftBehind EXCEPT ![r] = @ \cup LeftUnledgered]
  /\ UNCHANGED <<received_text_messages, sms_replies, cronVars, messages, idx,
                 newMessages, alreadyProcessed, processedPhones, pending,
                 error, result, log>>

\* a call of pollAndProcessReplies, by the timer callback or by the handler
StartRun(r, o) ==
  /\ pc[r] = "idle"
  /\ \A q \in Runs : q < r => pc[q] # "idle"
  /\ pc' = [pc EXCEPT ![r] = "fetch"]
  /\ origin' = [origin EXCEPT ![r] = o]
  /\ doneBefore' = [doneBefore EXCEPT ![r] = {q \in Runs : pc[q] = "done"}]
  /\ leftBehind' = [leftBehind EXCEPT ![r] = @ \cup LeftUnledgered]
  /\ UNCHANGED <<received_text_messages, sms_replies, cronVars, messages, idx,
                 newMessages, alreadyProcessed, processedPhones, pending,
                 error, result, log>>

\* faulty variant: the timer gives up once a scheduled run has failed
Tick_cancelOnFailure(r) ==
  /\ pollJob = "armed"
  /\ \A q \in Runs : ~(origin[q] = "tick" /\ pc[q] = "failed")
  /\ StartRun(r, "tick")

\* the setInterval callback fires: a new service, a new run
Tick(r) == pollJob = "armed" /\ StartRun(r, "tick")

\* GET /process-sms-replies: processSmsRepliesHandler
ManualTrigger(r) == ~stopped /\ StartRun(r, "manual")

NoResponse == [code |-> 0, success |-> FALSE, total |-> -1, processed |-> -1, message |-> ""]

\* faulty variant: the 500 carries the message of the error the run threw
processSmsRepliesHandler_leak(r) ==
  IF origin[r] # "manual" THEN NoResponse
  ELSE IF pc[r] = "done"
  THEN [code |-> 200, success |-> TRUE, total |-> result[r].total,
        processed |-> result[r].processed, message |-> ""]
  ELSE IF pc[r] = "failed"
  THEN [code |-> 500, success |-> FALSE, total |-> -1, processed |-> -1,
        message |-> error[r]]
  ELSE NoResponse

\* what processSmsRepliesHandler returns for the run it awaited:
\* h.response({ success: true, total, processed }).code(200), or
\* Boom.internal('Failed to process SMS replies') from its catch
processSmsRepliesHandler(r) ==
  IF origin[r] # "manual" THEN NoResponse
  ELSE IF pc[r] = "done"
  THEN [code |-> 200, success |-> TRUE, total |-> result[r].total,
        processed |-> result[r].processed, message |-> ""]
  ELSE IF pc[r] = "failed"
  THEN [code |-> 500, success |-> FALSE, total |-> -1, processed |-> -1,
        message |-> "Failed to process SMS replies"]
  ELSE NoResponse

\* the async callback of setInterval around a scheduled run: try { await
\* pollAndProcessReplies() } catch (error) { logger.error(...) }
TimerCallback(r) ==
  IF origin[r] # "tick" THEN "none"
  ELSE IF pc[r] = "done" THEN "resolved"
  ELSE IF pc[r] = "failed" THEN "caught_and_logged"
  ELSE "pending"

\* faulty variant: the stop listener leaves the timer armed
ServerStop_noClear ==
  /\ ~stopped
  /\ stopped' = TRUE
  /\ pollJob' = pollJob
  /\ intervalMs' = intervalMs
  /\ stopListeners' = stopListeners
  /\ freshAtStop' = {r \in Runs : pc[r] = "fetch"}
  /\ UNCHANGED <<received_text_messages, sms_replies, smsReplyPollEnabled,
                 loopVars, origin, messages, processedPhones, pending, log,
                 doneBefore,
                 leftBehind>>

\* server.events.on('stop'): clearInterval(pollJob)
ServerStop ==
  /\ ~stopped
  /\ stopped' = TRUE
  /\ pollJob' = IF stopListeners > 0 /\ pollJob = "armed" THEN "cleared" ELSE pollJob
  /\ intervalMs' = intervalMs
  /\ stopListeners' = stopListeners
  /\ freshAtStop' = {r \in Runs : pc[r] = "fetch"}
  /\ UNCHANGED <<received_text_messages, sms_replies, smsReplyPollEnabled,
                 loopVars, origin, messages, processedPhones, pending, log,
                 doneBefore,
                 leftBehind>>

\* ------------------------------------------------------------------- run
\* await client.getReceivedTexts()
GetReceivedTexts(r) ==
  /\ pc[r] = "fetch"
  /\ \E out \in {"ok", "absent", "error"} :
       IF out = "error"
       THEN /\ messages' = messages
            /\ Logged(r, Event("fetch", "", <<>>, "", 0, "error"))
            /\ Throw(r, "fetch_error")
       ELSE /\ out = "absent" => received_text_messages = <<>>
            /\ LET data == ReceivedTexts(out = "ok", received_text_messages) IN
               /\ messages' = [messages EXCEPT ![r] = MessagesOf(data)]
               /\ Logged(r, Event("fetch", "", <<>>, "", 0, out))
               /\ LoopFrom(r, MessagesOf(data), 1, 0, 0)
  /\ UNCHANGED <<received_text_messages, sms_replies, cronVars, origin,
                 processedPhones, pending, doneBefore,
                 leftBehind>>

\* faulty variant: one Set at module level, shared by all runs
BatchSet_shared(r) == UNION {processedPhones[q] : q \in Runs}

\* const processedPhones = new Set(), local to one pollAndProcessReplies call
BatchSet(r) == processedPhones[r]

\* processMessage and the head of handleStop, up to their first await
processMessage(r, msg) ==
  LET phoneNumber == NormalizePhone(msg.user_number) IN
  IF IsStop(msg.content)
  THEN IF phoneNumber \in BatchSet(r)
       THEN /\ pending' = [pending EXCEPT ![r] =
                             AuditRecord(msg, phoneNumber, "duplicate_stop")]
            /\ Await(r, "insert")
       ELSE /\ pending' = pending
            /\ Await(r, "post")
  ELSE /\ pending' = [pending EXCEPT ![r] = AuditRecord(msg, phoneNumber, "ignored")]
       /\ Await(r, "insert")

\* await this.isProcessed(msg.id), then continue or processMessage
IsProcessed(r) ==
  /\ pc[r] = "lookup"
  /\ LET msg == messages[r][idx[r]] IN
     \E dbOk \in BOOLEAN :
       IF ~dbOk
       THEN /\ Logged(r, Event("lookup", msg.id, <<>>, "", 0, "error"))
            /\ pending' = pending
            /\ Throw(r, "db_error")
       ELSE /\ Logged(r, Event("lookup", msg.id, <<>>, "", 0,
                               IF HasRecord(msg.id) THEN "found" ELSE "absent"))
            /\ IF isProcessed(sms_replies, msg.id)
               THEN /\ pending' = pending
                    /\ LoopFrom(r, messages[r], idx[r] + 1, newMessages[r],
                                alreadyProcessed[r] + 1)
               ELSE processMessage(r, msg)
  /\ UNCHANGED <<received_text_messages, sms_replies, cronVars, origin,
                 messages, processedPhones, doneBefore,
                 leftBehind>>

\* handleStop: await fetch(`${alertBackendUrl}/opt-out-alert`), await
\* response.json(), then the branch on response.status
OptOutPost(r) ==
  /\ pc[r] = "post"
  /\ LET msg == messages[r][idx[r]]
         phoneNumber == NormalizePhone(msg.user_number) IN
     \E resp \in Responses :
       /\ Logged(r, Event("post", msg.id, phoneNumber, "", resp.status,
                          IF resp = NetworkError THEN "network_error"
                          ELSE IF resp.json THEN "json" ELSE "not_json"))
       /\ IF StopOutcome(resp) = "throw"
          THEN /\ pending' = pending
               /\ Throw(r, "backend_error")
          ELSE /\ pending' = [pending EXCEPT ![r] =
                                AuditRecord(msg, phoneNumber, StopOutcome(resp))]
               /\ Await(r, "insert")
  /\ UNCHANGED <<received_text_messages, sms_replies, cronVars, origin,
                 messages, processedPhones, doneBefore,
                 leftBehind>>

\* faulty variant: the number is added to the batch set before the write is
\* awaited, so it stays there when the write fails
InsertOne_addFirst(r) ==
  /\ pc[r] = "insert"
  /\ LET doc == pending[r] IN
     /\ processedPhones' = [processedPhones EXCEPT ![r] = TrackPhone(@, doc)]
     /\ \E dbOk \in BOOLEAN :
          IF ~dbOk
          THEN /\ Logged(r, Event("insert", doc.messageId, doc.phoneNumber,
                                  doc.status, 0, "error"))
               /\ UNCHANGED sms_replies
               /\ Throw(r, "db_error")
          ELSE IF DuplicateKey(sms_replies, doc)
          THEN /\ Logged(r, Event("insert", doc.messageId, doc.phoneNumber,
                                  doc.status, 0, "duplicate"))
               /\ UNCHANGED sms_replies
               /\ Throw(r, "E11000")
          ELSE /\ Logged(r, Event("insert", doc.messageId, doc.phoneNumber,
                                  doc.status, 0, "ok"))
               /\ sms_replies' = Append(sms_replies, doc)
               /\ LoopFrom(r, messages[r], idx[r] + 1, newMessages[r] + 1,
                           alreadyProcessed[r])
  /\ pending' = [pending EXCEPT ![r] = NoRecord]
  /\ UNCHANGED <<received_text_messages, cronVars, origin, messages, doneBefore,
                 leftBehind>>

\* faulty variant: the write is an upsert keyed by phone number, which
\* overwrites the record an earlier message of that number left
InsertOne_upsert(r) ==
  /\ pc[r] = "insert"
  /\ LET doc == pending[r]
         same == {n \in DOMAIN sms_replies : sms_replies[n].phoneNumber = doc.phoneNumber} IN
     \E dbOk \in BOOLEAN :
       IF ~dbOk
       THEN /\ Logged(r, Event("insert", doc.messageId, doc.phoneNumber,
                               doc.status, 0, "error"))
            /\ UNCHANGED <<sms_replies, processedPhones>>
            /\ Throw(r, "db_error")
       ELSE IF DuplicateKey(sms_replies, doc)
       THEN /\ Logged(r, Event("insert", doc.messageId, doc.phoneNumber,
                               doc.status, 0, "duplicate"))
            /\ UNCHANGED <<sms_replies, processedPhones>>
            /\ Throw(r, "E11000")
       ELSE /\ Logged(r, Event("insert", doc.messageId, doc.phoneNumber,
                               doc.status, 0, "ok"))
            /\ sms_replies' =
                 IF same = {} THEN Append(sms_replies, doc)
                 ELSE [n \in DOMAIN sms_replies |->
                         IF n \in same THEN doc ELSE sms_replies[n]]
            /\ processedPhones' =
                 [processedPhones EXCEPT ![r] = TrackPhone(@, doc)]
            /\ LoopFrom(r, messages[r], idx[r] + 1, newMessages[r] + 1,
                        alreadyProcessed[r])
  /\ pending' = [pending EXCEPT ![r] = NoRecord]
  /\ UNCHANGED <<received_text_messages, cronVars, origin, messages, doneBefore,
                 leftBehind>>

\* await db.collection('sms_replies').insertOne(...) of markProcessed and of
\* handleStop, then processedPhones.add and newMessages++
InsertOne(r) ==
  /\ pc[r] = "insert"
  /\ LET doc == pending[r] IN
     \E dbOk \in BOOLEAN :
       IF ~dbOk
       THEN /\ Logged(r, Event("insert", doc.messageId, doc.phoneNumber,
                               doc.status, 0, "error"))
            /\ UNCHANGED <<sms_replies, processedPhones>>
            /\ Throw(r, "db_error")
       ELSE IF DuplicateKey(sms_replies, doc)
       THEN /\ Logged(r, Event("insert", doc.messageId, doc.phoneNumber,
                               doc.status, 0, "duplicate"))
            /\ UNCHANGED <<sms_replies, processedPhones>>
            /\ Throw(r, "E11000")
       ELSE /\ Logged(r, Event("insert", doc.messageId, doc.phoneNumber,
                               doc.status, 0, "ok"))
            /\ sms_replies' = Append(sms_replies, doc)
            /\ processedPhones' =
                 [processedPhones EXCEPT ![r] = TrackPhone(@, doc)]
            /\ LoopFrom(r, messages[r], idx[r] + 1, newMessages[r] + 1,
                        alreadyProcessed[r])
  /\ pending' = [pending EXCEPT ![r] = NoRecord]
  /\ UNCHANGED <<received_text_messages, cronVars, origin, messages, doneBefore,
                 leftBehind>>

Next ==
  \/ ProviderReceive /\ UNCHANGED otpVars
  \/ ServerStop /\ UNCHANGED otpVars
  \/ \E r \in Runs : Tick(r) /\ UNCHANGED otpVars
  \/ \E r \in Runs : ManualTrigger(r) /\ UNCHANGED otpVars
  \/ \E r \in Runs : GetReceivedTexts(r) /\ UNCHANGED otpVars
  \/ \E r \in Runs : IsProcessed(r) /\ UNCHANGED otpVars
  \/ \E r \in Runs : OptOutPost(r) /\ UNCHANGED otpVars
  \/ \E r \in Runs : InsertOne(r) /\ UNCHANGED otpVars

Spec == Init /\ [][Next]_vars

\* ------------------------------------------- verification store: actions
\* new Date() moves on
ClockAdvances ==
  /\ now < MaxClock
  /\ now' = now + 1
  /\ UNCHANGED <<user_contact_details, validatePc, validateArgs, document,
                 validateResult, storeLog, versionRead>>
  /\ UNCHANGED smsVars

\* history only: how many stores have been made for a contact
VersionOf(contact) ==
  Cardinality({k \in DOMAIN storeLog : storeLog[k].contact = contact})

\* storeVerificationDetails: replaceOne({contact}, document, {upsert: true}),
\* one atomic operation of the database; a rejected replaceOne changes nothing
storeVerificationDetails(contact, secret, expiryTime) ==
  /\ Len(storeLog) < MaxStores
  /\ user_contact_details' =
       [user_contact_details EXCEPT
          ![contact] = NewDocument(contact, secret, expiryTime, now)]
  /\ storeLog' = Append(storeLog, [contact |-> contact, secret |-> secret,
                                   expiryTime |-> expiryTime])
  /\ UNCHANGED <<now, validatePc, validateArgs, document, validateResult,
                 versionRead>>
  /\ UNCHANGED smsVars

\* a caller enters validateSecret(contact, secret): up to its first await
validateSecret(c, contact, secret) ==
  /\ validatePc[c] = "idle"
  /\ \A q \in Calls : q < c => validatePc[q] # "idle"
  /\ validatePc' = [validatePc EXCEPT ![c] = "findOne"]
  /\ validateArgs' = [validateArgs EXCEPT
                        ![c] = [contact |-> contact, secret |-> secret]]
  /\ UNCHANGED <<user_contact_details, now, document, validateResult,
                 storeLog, versionRead>>
  /\ UNCHANGED smsVars

\* await this.collection.findOne({ contact }) settles, and the code runs on
\* through its four checks to a return or to the await of updateOne
ValidateFindOne(c) ==
  /\ validatePc[c] = "findOne"
  /\ \E ok \in BOOLEAN :
       IF ~ok
       THEN /\ validatePc' = [validatePc EXCEPT ![c] = "threw"]
            /\ UNCHANGED <<document, validateResult, versionRead>>
       ELSE LET found == user_contact_details[validateArgs[c].contact]
                err == ValidationError(found, validateArgs[c].secret, now) IN
            /\ document' = [document EXCEPT ![c] = found]
            /\ versionRead' = [versionRead EXCEPT
                                 ![c] = VersionOf(validateArgs[c].contact)]
            /\ IF err # "null"
               THEN /\ validateResult' = [validateResult EXCEPT
                                            ![c] = [valid |-> FALSE, error |-> err]]
                    /\ validatePc' = [validatePc EXCEPT ![c] = "returned"]
               ELSE /\ validateResult' = validateResult
                    /\ validatePc' = [validatePc EXCEPT ![c] = "updateOne"]
  /\ UNCHANGED <<user_contact_details, now, validateArgs, storeLog>>
  /\ UNCHANGED smsVars

\* await this.collection.updateOne({ contact }, { $set: { validated: true,
\* updatedAt: new Date() } }) settles; modifiedCount 0 throws, else the call
\* returns valid
ValidateUpdateOne(c) ==
  /\ validatePc[c] = "updateOne"
  /\ \E ok \in BOOLEAN :
       IF ~ok
       THEN /\ validatePc' = [validatePc EXCEPT ![c] = "threw"]
            /\ UNCHANGED <<user_contact_details, validateResult>>
       ELSE LET contact == validateArgs[c].contact
                stored == user_contact_details[contact] IN
            /\ user_contact_details' =
                 IF stored = NoDocument THEN user_contact_details
                 ELSE [user_contact_details EXCEPT
                         ![contact] = [stored EXCEPT !.validated = TRUE,
                                                     !.updatedAt = now]]
            /\ IF ModifiedCount(stored, now) = 0
               THEN /\ validatePc' = [validatePc EXCEPT ![c] = "threw"]
                    /\ validateResult' = validateResult
               ELSE /\ validatePc' = [validatePc EXCEPT ![c] = "returned"]
                    /\ validateResult' = [validateResult EXCEPT
                                            ![c] = [valid |-> TRUE, error |-> "null"]]
  /\ UNCHANGED <<now, validateArgs, document, storeLog, versionRead>>
  /\ UNCHANGED smsVars

InitOtp == Init /\ smsReplyPollEnabled = FALSE

NextOtp ==
  \/ ClockAdvances
  \/ \E contact \in Contacts, secret \in Secrets, expiryTime \in Times :
       storeVerificationDetails(contact, secret, expiryTime)
  \/ \E c \in Calls, contact \in Contacts, secret \in Secrets :
       validateSecret(c, contact, secret)
  \/ \E c \in Calls : ValidateFindOne(c)
  \/ \E c \in Calls : ValidateUpdateOne(c)

SpecOtp == InitOtp /\ [][NextOtp]_vars

\* ---------------------------------------------------------------- history
EventsOf(r) == DOMAIN log[r]

IsPost(e) == e.op = "post"
IsInsert(e) == e.op = "insert"
IsLookup(e) == e.op = "lookup"

\* the backend did not answer 200 or 404: another status, or no answer at all
BackendFailed(e) == IsPost(e) /\ (e.out = "network_error" \/ e.http \notin {200, 404})

StatusOfHttp(http) == IF http = 200 THEN "unsubscribed" ELSE "user_not_found"

InsertsOk(r) == {k \in EventsOf(r) : IsInsert(log[r][k]) /\ log[r][k].out = "ok"}

Current(r) == messages[r][idx[r]]

FetchedOk(r) == log[r] # <<>> /\ log[r][1].op = "fetch" /\ log[r][1].out # "error"

\* ------------------------------------------------------------------ claims

\* C1: two runs that both pass isProcessed for the same STOP message before
\* either has written its record do not both call the backend (at most one
\* opt-out POST is ever issued on behalf of a message).
C1_NoDoublePostInRace ==
  \A r1 \in Runs, r2 \in Runs :
    (r1 # r2 /\ pc[r1] = "insert" /\ pc[r2] = "insert"
       /\ Current(r1).id = Current(r2).id /\ ~HasRecord(Current(r1).id))
    => ~(/\ \E k \in EventsOf(r1) : IsPost(log[r1][k]) /\ log[r1][k].id = Current(r1).id
         /\ \E k \in EventsOf(r2) : IsPost(log[r2][k]) /\ log[r2][k].id = Current(r2).id)

C3_DuplicateKeyIsBenign ==
  \A r \in Runs :
    /\ error[r] # "E11000"
    /\ \A k \in EventsOf(r) :
         (IsInsert(log[r][k]) /\ log[r][k].out = "duplicate") => pc[r] # "failed"

C4_SkipStep ==
  \A r \in Runs :
    (pc[r] = "lookup" /\ HasRecord(Current(r).id) /\ log'[r] # log[r])
    => /\ sms_replies' = sms_replies
       /\ processedPhones'[r] = processedPhones[r]
       /\ newMessages'[r] = newMessages[r]
       /\ pc'[r] \in {"lookup", "done", "failed"}
       /\ pc'[r] # "failed" =>
            /\ idx'[r] = idx[r] + 1
            /\ alreadyProcessed'[r] = alreadyProcessed[r] + 1
       /\ pc'[r] = "done" =>
            result'[r] = [total |-> Len(messages[r]), processed |-> newMessages[r]]

C4_SkippedUntouched ==
  \A r \in Runs : \A k \in EventsOf(r) :
    (IsLookup(log[r][k]) /\ log[r][k].out = "found")
    => \A j \in EventsOf(r) : log[r][j].id = log[r][k].id => j = k

\* C4: a run that looks up a message id that has a ledger record skips the
\* message: no backend call, no record, no change of the batch set, not
\* counted in processed, counted in total.
C4_SkipLedgered == [][C4_SkipStep]_vars /\ []C4_SkippedUntouched

\* a run returned after skipping a ledgered message
C4_Witness ==
  \E r \in Runs :
    /\ pc[r] = "done"
    /\ \E k \in EventsOf(r) : IsLookup(log[r][k]) /\ log[r][k].out = "found"

\* C5: a run that starts after another run returned, on the same feed, makes
\* no backend call and no ledger write and returns processed = 0 with the same
\* total.
C5_SecondRunIdle ==
  \A r1 \in Runs, r2 \in Runs :
    (r1 \in doneBefore[r2] /\ FetchedOk(r2) /\ messages[r2] = messages[r1])
    => /\ \A k \in EventsOf(r2) : k > 1 => IsLookup(log[r2][k])
       /\ newMessages[r2] = 0
       /\ \A k \in DOMAIN messages[r2] : HasRecord(messages[r2][k].id)
       /\ pc[r2] = "done" =>
            result[r2] = [total |-> result[r1].total, processed |-> 0]

C5_Witness ==
  \E r1 \in Runs, r2 \in Runs :
    /\ r1 \in doneBefore[r2] /\ FetchedOk(r2) /\ messages[r2] = messages[r1]
    /\ Len(messages[r2]) >= 2
    /\ pc[r2] = "done"
    /\ result[r1].processed = Len(messages[r1])

\* C6: within one run the backend is called at most once per normalized phone
\* number; after a STOP of a number was finalized as unsubscribed or
\* user_not_found, a later STOP of that number is recorded as duplicate_stop
\* without a backend call.
C6_OncePerPhone ==
  \A r \in Runs :
    /\ \A j \in EventsOf(r), k \in EventsOf(r) :
         (IsPost(log[r][j]) /\ IsPost(log[r][k]) /\ log[r][j].phone = log[r][k].phone)
         => j = k
    /\ \A j \in InsertsOk(r), k \in EventsOf(r) :
         (/\ j < k
          /\ log[r][j].status \in {"unsubscribed", "user_not_found"}
          /\ log[r][k].phone = log[r][j].phone
          /\ log[r][k].status # "ignored")
         => IsInsert(log[r][k]) /\ log[r][k].status = "duplicate_stop"

C6_Witness ==
  \E r \in Runs : \E j \in InsertsOk(r), k \in InsertsOk(r) :
    /\ j < k
    /\ log[r][j].status = "unsubscribed"
    /\ log[r][k].status = "duplicate_stop"
    /\ log[r][k].phone = log[r][j].phone

\* C7: for an un-ledgered STOP whose number is not in the batch set the HTTP
\* status alone decides, whatever the body: after an answer 200 the run
\* inserts a record unsubscribed, after 404 a record user_not_found.
C7_StatusAloneDecides ==
  \A r \in Runs : \A k \in EventsOf(r) :
    (IsPost(log[r][k]) /\ log[r][k].out # "network_error"
       /\ log[r][k].http \in {200, 404})
    => IF k = Len(log[r])
       THEN pc[r] = "insert" /\ pending[r].status = StatusOfHttp(log[r][k].http)
       ELSE /\ IsInsert(log[r][k + 1])
            /\ log[r][k + 1].id = log[r][k].id
            /\ log[r][k + 1].status = StatusOfHttp(log[r][k].http)

\* C8: when the backend call ends with a status other than 200 or 404, or with
\* a transport error, the run writes no record for the message, does not add
\* its number to the batch set, does not count it, and throws.
C8_BackendFailureThrows ==
  \A r \in Runs : \A k \in EventsOf(r) :
    BackendFailed(log[r][k])
    => /\ k = Len(log[r])
       /\ pc[r] = "failed"
       /\ error[r] = "backend_error"
       /\ result[r] = NoResult
       /\ \A j \in EventsOf(r) : IsInsert(log[r][j]) => log[r][j].id # log[r][k].id
       /\ log[r][k].phone \notin processedPhones[r]
       /\ newMessages[r] = Cardinality(InsertsOk(r))

C8_Witness ==
  \E r1 \in Runs, r2 \in Runs :
    /\ log[r1] # <<>> /\ log[r2] # <<>>
    /\ BackendFailed(log[r1][Len(log[r1])]) /\ log[r1][Len(log[r1])].http = 500
    /\ log[r2][Len(log[r2])].out = "network_error"

\* C9: when a backend failure aborts a run at message i, the records the run
\* wrote for the messages before i are in the ledger, and the run has made no
\* lookup, backend call or write for any message after i.
C9_AbortKeepsProgress ==
  \A r \in Runs : \A k \in EventsOf(r) :
    BackendFailed(log[r][k])
    => /\ \A j \in EventsOf(r) : j <= k
       /\ \A j \in InsertsOk(r) :
            \E n \in DOMAIN sms_replies :
              /\ sms_replies[n].messageId = log[r][j].id
              /\ sms_replies[n].status = log[r][j].status
              /\ sms_replies[n].phoneNumber = log[r][j].phone
       /\ \A m \in DOMAIN messages[r] :
            (\E j \in EventsOf(r) : log[r][j].id = messages[r][m].id) => m <= idx[r]
       /\ idx[r] \in DOMAIN messages[r]
       /\ messages[r][idx[r]].id = log[r][k].id

\* one run aborted at its first message with a second one behind it, another
\* aborted at its second message after writing a record for its first
C9_Witness ==
  \E r1 \in Runs, r2 \in Runs :
    /\ log[r1] # <<>> /\ BackendFailed(log[r1][Len(log[r1])])
    /\ idx[r1] = 1 /\ Len(messages[r1]) = 2
    /\ log[r2] # <<>> /\ BackendFailed(log[r2][Len(log[r2])])
    /\ idx[r2] = 2 /\ InsertsOk(r2) # {}

C10_FetchFailedStep ==
  \A r \in Runs :
    (pc[r] = "fetch" /\ log'[r] # log[r] /\ log'[r][1].out = "error")
    => /\ sms_replies' = sms_replies
       /\ pc'[r] = "failed"
       /\ error'[r] = "fetch_error"

C10_FetchFailedQuiet ==
  \A r \in Runs :
    (log[r] # <<>> /\ log[r][1].op = "fetch" /\ log[r][1].out = "error")
    => /\ Len(log[r]) = 1
       /\ pc[r] = "failed"
       /\ error[r] = "fetch_error"
       /\ messages[r] = <<>>
       /\ newMessages[r] = 0 /\ alreadyProcessed[r] = 0
       /\ result[r] = NoResult

\* C10: if the provider fetch fails, pollAndProcessReplies throws that error
\* having made no ledger read, no ledger write and no backend call.
C10_FetchFailure == [][C10_FetchFailedStep]_vars /\ []C10_FetchFailedQuiet

\* a fetch failed while the ledger held records and the feed held messages
C10_Witness ==
  \E r \in Runs :
    /\ log[r] # <<>> /\ log[r][1].out = "error"
    /\ sms_replies # <<>>
    /\ Len(received_text_messages) > Len(sms_replies)

SkippedBy(r) == {k \in EventsOf(r) : IsLookup(log[r][k]) /\ log[r][k].out = "found"}

\* C18: when pollAndProcessReplies returns, total is the number of messages
\* the fetch returned (0 for an empty or absent list), processed is the number
\* of ledger records this run wrote, and total - processed is the number of
\* messages it skipped as already ledgered.
C18_ReturnedCounts ==
  \A r \in Runs :
    pc[r] = "done"
    => /\ FetchedOk(r)
       /\ messages[r] = SubSeq(received_text_messages, 1, Len(messages[r]))
       /\ result[r].total = Len(messages[r])
       /\ log[r][1].out = "absent" => result[r].total = 0
       /\ result[r].processed = Cardinality(InsertsOk(r))
       /\ \A k \in InsertsOk(r) :
            \E n \in DOMAIN sms_replies :
              sms_replies[n].messageId = log[r][k].id
       /\ result[r].total - result[r].processed = Cardinality(SkippedBy(r))

\* a run returned { total: 2, processed: 1 } after one skip and one write
C18_Witness ==
  \E r \in Runs :
    /\ pc[r] = "done"
    /\ result[r] = [total |-> 2, processed |-> 1]
    /\ Cardinality(SkippedBy(r)) = 1

TextOf(id) == CHOOSE m \in InboundTexts : m.id = id

Digits(number) == IF Head(number) = "+" THEN Tail(number) ELSE number

WithPlus(sender, phone) ==
  /\ Head(phone) = "+"
  /\ Tail(phone) = Digits(sender)
  /\ Head(sender) = "+" => phone = sender

\* C17: a sender number without a leading '+' gets '+' prepended before it is
\* compared with the batch set, stored in the ledger or sent to the backend; a
\* number that starts with '+' is left unchanged; so the same number with and
\* without '+' is one phone number for the in-batch dedup.
C17_PlusPrefixed ==
  /\ \A n \in DOMAIN sms_replies :
       WithPlus(TextOf(sms_replies[n].messageId).user_number,
                sms_replies[n].phoneNumber)
  /\ \A r \in Runs :
       /\ \A k \in EventsOf(r) :
            (IsPost(log[r][k]) \/ IsInsert(log[r][k]))
            => WithPlus(TextOf(log[r][k].id).user_number, log[r][k].phone)
       /\ \A phone \in processedPhones[r] : Head(phone) = "+"
       /\ \A j \in InsertsOk(r), k \in EventsOf(r) :
            (/\ j < k
             /\ log[r][j].status \in {"unsubscribed", "user_not_found"}
             /\ IsPost(log[r][k]) \/ IsInsert(log[r][k])
             /\ Digits(TextOf(log[r][k].id).user_number)
                  = Digits(TextOf(log[r][j].id).user_number)
             /\ log[r][k].status # "ignored")
            => IsInsert(log[r][k]) /\ log[r][k].status = "duplicate_stop"

\* "441" was unsubscribed as "+441", then the STOP of "+441" in the same batch
\* was recorded as duplicate_stop
C17_Witness ==
  \E r \in Runs : \E j \in InsertsOk(r), k \in InsertsOk(r) :
    /\ j < k
    /\ log[r][j].id = "m1" /\ log[r][j].status = "unsubscribed"
    /\ log[r][j].phone = <<"+", "4", "4", "1">>
    /\ log[r][k].id = "m2" /\ log[r][k].status = "duplicate_stop"
    /\ \E n \in DOMAIN sms_replies :
         sms_replies[n].messageId = "m1" /\ sms_replies[n].phoneNumber = log[r][j].phone

Finalized(r) ==
  {log[r][k].phone : k \in {j \in InsertsOk(r) :
                              log[r][j].status \in {"unsubscribed", "user_not_found"}}}

C15_OwnStep ==
  \A r \in Runs :
    log'[r] # log[r]
    => \A q \in Runs \ {r} :
         /\ processedPhones'[q] = processedPhones[q]
         /\ pc'[q] = pc[q] /\ messages'[q] = messages[q] /\ idx'[q] = idx[q]
         /\ newMessages'[q] = newMessages[q]
         /\ alreadyProcessed'[q] = alreadyProcessed[q]
         /\ pending'[q] = pending[q] /\ error'[q] = error[q]
         /\ result'[q] = result[q] /\ log'[q] = log[q]

C15_OwnSet ==
  \A r \in Runs :
    /\ pc[r] \in {"idle", "fetch"} => processedPhones[r] = {}
    /\ processedPhones[r] = Finalized(r)
    /\ \A k \in EventsOf(r) :
         (IsInsert(log[r][k]) /\ log[r][k].status = "duplicate_stop")
         => \E j \in InsertsOk(r) :
              /\ j < k
              /\ log[r][j].phone = log[r][k].phone
              /\ log[r][j].status \in {"unsubscribed", "user_not_found"}

\* C15: every run starts with its own empty batch set, which no other run
\* reads or writes; apart from the ledger (and the provider's feed) the runs
\* share no state.
C15_BatchSetPerRun == [][C15_OwnStep]_vars /\ []C15_OwnSet

\* a run is about to call the backend for a number that is in the batch set
\* of another run
C15_Witness ==
  \E r1 \in Runs, r2 \in Runs :
    /\ r1 # r2
    /\ pc[r2] = "post"
    /\ processedPhones[r2] = {}
    /\ \E phone \in processedPhones[r1] :
         Tail(phone) = Digits(Current(r2).user_number)

InFlight(r) == pc[r] \in {"fetch", "lookup", "post", "insert"}

\* the slot the next call of pollAndProcessReplies takes
NextSlot(r) == pc[r] = "idle" /\ \A q \in Runs : q < r => pc[q] # "idle"

\* C14: two executions of pollAndProcessReplies can be in flight at once: a
\* tick starts a run whether or not an earlier run has finished, the manual
\* trigger starts a run whether or not a scheduled run is in flight; nothing
\* serialises them.
C14_NothingSerialises ==
  \A r \in Runs :
    NextSlot(r)
    => /\ pollJob = "armed" => ENABLED Tick(r)
       /\ ~stopped => ENABLED ManualTrigger(r)

\* a scheduled run and a manually triggered run, both between their fetch and
\* their return
C14_Witness ==
  \E r1 \in Runs, r2 \in Runs :
    /\ origin[r1] = "tick" /\ origin[r2] = "manual"
    /\ pc[r1] \in {"lookup", "post", "insert"}
    /\ pc[r2] \in {"lookup", "post", "insert"}

RunStep(r) ==
  GetReceivedTexts(r) \/ IsProcessed(r) \/ OptOutPost(r) \/ InsertOne(r)

C13_StopStep ==
  /\ stopped => \A r \in Runs : pc[r] = "idle" => origin'[r] # "tick"
  /\ (~stopped /\ stopped')
     => /\ pc' = pc /\ error' = error /\ result' = result
        /\ log' = log /\ sms_replies' = sms_replies

C13_StillRunning ==
  stopped
  => /\ pollJob # "armed"
     /\ \A r \in Runs : ~ENABLED Tick(r)
     /\ \A r \in Runs : InFlight(r) => ENABLED RunStep(r)

\* C13: after the server 'stop' event the scheduler starts no further run, and
\* a run in flight at the stop is not aborted: it goes on to its own return or
\* error, with its remaining backend calls and ledger writes.
C13_StopLeavesRunsAlone == [][C13_StopStep]_vars /\ []C13_StillRunning

\* a run that had made no call yet when the server stopped has since fetched,
\* called the backend, written its record and returned
C13_Witness ==
  \E r \in freshAtStop :
    /\ stopped
    /\ pc[r] = "done"
    /\ \E k \in EventsOf(r) : IsPost(log[r][k])
    /\ InsertsOk(r) # {}

FailedTicks == {r \in Runs : origin[r] = "tick" /\ pc[r] = "failed"}

C12_TimerStep ==
  /\ intervalMs' = intervalMs
  /\ pollJob' # pollJob => (~stopped /\ stopped' /\ pollJob' = "cleared")

C12_AfterFailure ==
  FailedTicks # {}
  => /\ \A r \in FailedTicks : TimerCallback(r) = "caught_and_logged"
     /\ intervalMs = IntervalMinutes * 60 * 1000
     /\ ~stopped
        => /\ pollJob = "armed"
           /\ \A r \in Runs : NextSlot(r) => ENABLED Tick(r)

\* C12: an error thrown by pollAndProcessReplies inside a tick is caught in
\* that tick and never escapes the timer callback; after any number of
\* failing runs the timer is still armed with the same period and the next
\* tick starts a new run (no backoff, no cancellation).
C12_TickSurvivesFailure == [][C12_TimerStep]_vars /\ []C12_AfterFailure

\* a scheduled run has failed on the backend and the next tick can fire
C12_Witness ==
  \E r1 \in FailedTicks, r2 \in Runs :
    /\ error[r1] = "backend_error"
    /\ ~stopped
    /\ NextSlot(r2) /\ ENABLED Tick(r2)

PosOf(r, k) == CHOOSE p \in DOMAIN messages[r] : messages[r][p].id = log[r][k].id

\* the call that ends the handling of a message without an error
Ends(e) ==
  \/ IsInsert(e) /\ e.out = "ok"
  \/ IsLookup(e) /\ e.out = "found"

\* calls that end with an error
Erred(e) ==
  \/ e.out \in {"error", "duplicate", "network_error", "not_json"}
  \/ IsPost(e) /\ e.http \notin {200, 404}

\* C19: within one run the messages are handled in the order the provider
\* returned them and strictly one at a time: no lookup, backend call or write
\* for message i+1 starts before the record write (or the skip) that ends
\* message i, and none at all after an error.
C19_InProviderOrder ==
  \A r \in Runs : \A k \in EventsOf(r) :
    /\ k = 1 <=> log[r][k].op = "fetch"
    /\ k > 1 => \E p \in DOMAIN messages[r] : messages[r][p].id = log[r][k].id
    /\ k = 2 => IsLookup(log[r][k]) /\ PosOf(r, k) = 1
    /\ k > 2 =>
         IF Ends(log[r][k - 1])
         THEN IsLookup(log[r][k]) /\ PosOf(r, k) = PosOf(r, k - 1) + 1
         ELSE /\ ~Erred(log[r][k - 1])
              /\ ~IsLookup(log[r][k])
              /\ PosOf(r, k) = PosOf(r, k - 1)
              /\ IsPost(log[r][k]) => IsLookup(log[r][k - 1])
    /\ k = Len(log[r]) =>
         /\ pc[r] = "done" => (k = 1 \/ (Ends(log[r][k]) /\ PosOf(r, k) = Len(messages[r])))
         /\ pc[r] = "failed" <=> Erred(log[r][k])
         /\ pc[r] \in {"post", "insert"} => PosOf(r, k) = idx[r]
         /\ pc[r] = "lookup" => idx[r] = IF k = 1 THEN 1 ELSE PosOf(r, k) + 1

\* a run handled two STOP messages of two numbers, each with its lookup, its
\* backend call and its write, one after the other
C19_Witness ==
  \E r \in Runs :
    /\ pc[r] = "done"
    /\ Len(log[r]) = 7
    /\ IsPost(log[r][3]) /\ IsPost(log[r][6])
    /\ log[r][4].id = messages[r][1].id
    /\ log[r][5].id = messages[r][2].id

ManualRuns == {r \in Runs : origin[r] = "manual"}

\* C20: the manual trigger answers 200 with { success: true, total, processed }
\* of the run's result when the run returns, and 500 with the fixed message
\* "Failed to process SMS replies" when the run throws, whatever the error;
\* the error's own message never appears in the response.
C20_ManualTriggerAnswer ==
  \A r \in ManualRuns :
    LET response == processSmsRepliesHandler(r) IN
    /\ InFlight(r) => response = NoResponse
    /\ pc[r] = "done"
       => /\ response.code = 200 /\ response.success
          /\ response.total = Len(messages[r])
          /\ response.processed = Cardinality(InsertsOk(r))
    /\ pc[r] = "failed"
       => /\ error[r] \in {"fetch_error", "db_error", "backend_error", "E11000"}
          /\ response.code = 500
          /\ response.message = "Failed to process SMS replies"
          /\ response.message # error[r]
          /\ response.total = -1 /\ response.processed = -1

\* one manual run was answered 200 with its counts, another 500 after the
\* unique index rejected its insert
C20_Witness ==
  \E r1 \in ManualRuns, r2 \in ManualRuns :
    /\ pc[r1] = "done" /\ processSmsRepliesHandler(r1).total = 2
    /\ processSmsRepliesHandler(r1).processed = 2
    /\ pc[r2] = "failed" /\ error[r2] = "E11000"
    /\ processSmsRepliesHandler(r2).code = 500

\* ------------------------------------------------- classification of a text
\* One manually triggered run over a feed of one text whose content is any
\* string of up to MaxLen characters of Alphabet, or one of ContentExamples.
Alphabet == {" ", "s", "S", "t", "o", "p"}

ContentExamples ==
  { <<"Y", "E", "S">>,
    <<"H", "e", "l", "l", "o">>,
    <<"s", "t", "o", "p", " ", "p", "l", "e", "a", "s", "e">>,
    <<" ", "S", "T", "O", "P", "\n">>,
    <<"\t", "s", "t", "O", "p", " ", " ">> }

Contents == UNION {[1..n -> Alphabet] : n \in 0..MaxLen} \cup ContentExamples

InitClassify ==
  /\ \E content \in Contents :
       received_text_messages =
         <<[id |-> "m1", user_number |-> <<"4", "4", "1">>, content |-> content]>>
  /\ sms_replies = <<>>
  /\ smsReplyPollEnabled = FALSE
  /\ pollJob = "none"
  /\ intervalMs = 0
  /\ stopListeners = 0
  /\ stopped = FALSE
  /\ pc = [r \in Runs |-> "idle"]
  /\ origin = [r \in Runs |-> "none"]
  /\ messages = [r \in Runs |-> <<>>]
  /\ idx = [r \in Runs |-> 0]
  /\ newMessages = [r \in Runs |-> 0]
  /\ alreadyProcessed = [r \in Runs |-> 0]
  /\ processedPhones = [r \in Runs |-> {}]
  /\ pending = [r \in Runs |-> NoRecord]
  /\ error = [r \in Runs |-> "none"]
  /\ result = [r \in Runs |-> NoResult]
  /\ log = [r \in Runs |-> <<>>]
  /\ doneBefore = [r \in Runs |-> {}]
  /\ leftBehind = [r \in Runs |-> {}]
  /\ freshAtStop = {}
  /\ StoreAtRest

NextClassify ==
  \/ ManualTrigger(1) /\ UNCHANGED otpVars
  \/ GetReceivedTexts(1) /\ UNCHANGED otpVars
  \/ IsProcessed(1) /\ UNCHANGED otpVars
  \/ OptOutPost(1) /\ UNCHANGED otpVars
  \/ InsertOne(1) /\ UNCHANGED otpVars

SpecClassify == InitClassify /\ [][NextClassify]_vars

Blank(s, from, to) == \A k \in from..to : s[k] \in {" ", "\t", "\n"}

\* the word stop in any case, between any leading and trailing whitespace
SaysStop(s) ==
  \E a \in 0..Len(s) :
    /\ a + 4 <= Len(s)
    /\ Blank(s, 1, a)
    /\ s[a + 1] \in {"s", "S"}
    /\ s[a + 2] \in {"t", "T"}
    /\ s[a + 3] \in {"o", "O"}
    /\ s[a + 4] \in {"p", "P"}
    /\ Blank(s, a + 5, Len(s))

\* C16: an un-ledgered message takes the STOP path if and only if its content,
\* trimmed of surrounding whitespace and lower-cased, is exactly "stop"; every
\* other content is recorded with status ignored, with no backend call and no
\* change of the batch set.
C16_StopIffExactWord ==
  \A r \in Runs : \A k \in EventsOf(r) :
    (IsLookup(log[r][k]) /\ log[r][k].out = "absent")
    => LET content == messages[r][PosOf(r, k)].content IN
       IF SaysStop(content)
       THEN IF k = Len(log[r])
            THEN pc[r] = "post"
            ELSE IsPost(log[r][k + 1])
       ELSE /\ IF k = Len(log[r])
               THEN pc[r] = "insert" /\ pending[r].status = "ignored"
               ELSE IsInsert(log[r][k + 1]) /\ log[r][k + 1].status = "ignored"
            /\ \A j \in EventsOf(r) : IsPost(log[r][j]) => log[r][j].id # log[r][k].id
            /\ processedPhones[r] = {}
            /\ \A n \in DOMAIN sms_replies :
                 sms_replies[n].messageId = log[r][k].id
                 => sms_replies[n].status = "ignored"

\* a text that needs both the trim and the lower-casing went to the backend,
\* and was recorded unsubscribed
C16_Witness ==
  \E r \in Runs :
    /\ pc[r] = "done"
    /\ messages[r][1].content = <<" ", "S", "t", "o", "p">>
    /\ IsPost(log[r][3])
    /\ sms_replies # <<>> /\ sms_replies[1].status = "unsubscribed"

\* "stop please" was recorded ignored
C16_IgnoredWitness ==
  \E r \in Runs :
    /\ pc[r] = "done"
    /\ Len(messages[r][1].content) = 11
    /\ sms_replies # <<>> /\ sms_replies[1].status = "ignored"

\* ------------------------------------------------------ retry across ticks
\* The timer keeps firing over a feed that keeps its messages: when the
\* callback of a scheduled run has ended, its frame is gone and a later tick
\* starts a new run in its place.
Feeds ==
  {f \in UNION {[1..n -> InboundTexts] : n \in 1..MaxFeed} :
     \A j \in DOMAIN f, k \in DOMAIN f : f[j].id = f[k].id => j = k}

InitRetry ==
  /\ received_text_messages \in Feeds
  /\ sms_replies = <<>>
  /\ smsReplyPollEnabled = TRUE
  /\ pollJob = "armed"
  /\ intervalMs = IntervalMinutes * 60 * 1000
  /\ stopListeners = 1
  /\ stopped = FALSE
  /\ pc = [r \in Runs |-> "idle"]
  /\ origin = [r \in Runs |-> "none"]
  /\ messages = [r \in Runs |-> <<>>]
  /\ idx = [r \in Runs |-> 0]
  /\ newMessages = [r \in Runs |-> 0]
  /\ alreadyProcessed = [r \in Runs |-> 0]
  /\ processedPhones = [r \in Runs |-> {}]
  /\ pending = [r \in Runs |-> NoRecord]
  /\ error = [r \in Runs |-> "none"]
  /\ result = [r \in Runs |-> NoResult]
  /\ log = [r \in Runs |-> <<>>]
  /\ doneBefore = [r \in Runs |-> {}]
  /\ leftBehind = [r \in Runs |-> {}]
  /\ freshAtStop = {}
  /\ StoreAtRest

\* faulty variant: the catch of the timer callback cancels the timer
CallbackEnds_cancel(r) ==
  /\ pc[r] \in {"done", "failed"}
  /\ pollJob' = IF pc[r] = "failed" THEN "cleared" ELSE pollJob
  /\ pc' = [pc EXCEPT ![r] = "idle"]
  /\ origin' = [origin EXCEPT ![r] = "none"]
  /\ messages' = [messages EXCEPT ![r] = <<>>]
  /\ idx' = [idx EXCEPT ![r] = 0]
  /\ newMessages' = [newMessages EXCEPT ![r] = 0]
  /\ alreadyProcessed' = [alreadyProcessed EXCEPT ![r] = 0]
  /\ processedPhones' = [processedPhones EXCEPT ![r] = {}]
  /\ error' = [error EXCEPT ![r] = "none"]
  /\ result' = [result EXCEPT ![r] = NoResult]
  /\ log' = [log EXCEPT ![r] = <<>>]
  /\ doneBefore' = [q \in Runs |-> IF q = r THEN {} ELSE doneBefore[q] \ {r}]
  /\ leftBehind' = [leftBehind EXCEPT ![r] = @ \cup LeftUnledgered]
  /\ UNCHANGED <<received_text_messages, sms_replies, smsReplyPollEnabled,
                 intervalMs, stopListeners, stopped, freshAtStop, pending>>

\* the timer callback of a scheduled run ends, after the return of
\* pollAndProcessReplies or after its catch has logged the error: the run's
\* service, locals and batch set are dropped, the timer is left as it is
CallbackEnds(r) ==
  /\ pc[r] \in {"done", "failed"}
  /\ pollJob' = pollJob
  /\ pc' = [pc EXCEPT ![r] = "idle"]
  /\ origin' = [origin EXCEPT ![r] = "none"]
  /\ messages' = [messages EXCEPT ![r] = <<>>]
  /\ idx' = [idx EXCEPT ![r] = 0]
  /\ newMessages' = [newMessages EXCEPT ![r] = 0]
  /\ alreadyProcessed' = [alreadyProcessed EXCEPT ![r] = 0]
  /\ processedPhones' = [processedPhones EXCEPT ![r] = {}]
  /\ error' = [error EXCEPT ![r] = "none"]
  /\ result' = [result EXCEPT ![r] = NoResult]
  /\ log' = [log EXCEPT ![r] = <<>>]
  /\ doneBefore' = [q \in Runs |-> IF q = r THEN {} ELSE doneBefore[q] \ {r}]
  /\ leftBehind' = [leftBehind EXCEPT ![r] = @ \cup LeftUnledgered]
  /\ UNCHANGED <<received_text_messages, sms_replies, smsReplyPollEnabled,
                 intervalMs, stopListeners, stopped, freshAtStop, pending>>

\* the runs that the ticks of this specification use: with one, the runs of
\* successive ticks do not overlap
RetryRuns == 1..RetrySlots

NextRetry ==
  \/ \E r \in RetryRuns : Tick(r) /\ UNCHANGED otpVars
  \/ \E r \in RetryRuns : CallbackEnds(r) /\ UNCHANGED otpVars
  \/ \E r \in RetryRuns : GetReceivedTexts(r) /\ UNCHANGED otpVars
  \/ \E r \in RetryRuns : IsProcessed(r) /\ UNCHANGED otpVars
  \/ \E r \in RetryRuns : OptOutPost(r) /\ UNCHANGED otpVars
  \/ \E r \in RetryRuns : InsertOne(r) /\ UNCHANGED otpVars

\* the provider returned its list to some run
Fetched == \E r \in Runs : GetReceivedTexts(r) /\ pc'[r] # "failed"

\* the ledger answered some run's lookup of the message at position i
LookedUp(i) == \E r \in Runs : IsProcessed(r) /\ idx[r] = i /\ pc'[r] # "failed"

\* the backend answered 200 or 404, with a body, for the message at position i
Answered(i) == \E r \in Runs : OptOutPost(r) /\ idx[r] = i /\ pc'[r] = "insert"

\* the ledger took or refused the insert for the message at position i; it
\* did not fail
Inserted(i) == \E r \in Runs : InsertOne(r) /\ idx[r] = i /\ error'[r] # "db_error"

\* The timer fires again and again, every callback ends, every awaited call
\* settles; the provider, the ledger and the backend each answer in the end,
\* for every message, when they are asked again and again.
FairRetry ==
  /\ WF_smsVars(\E r \in Runs : Tick(r))
  /\ \A r \in Runs : WF_smsVars(CallbackEnds(r)) /\ WF_smsVars(RunStep(r))
  /\ SF_smsVars(Fetched)
  /\ \A i \in 1..MaxFeed :
       SF_smsVars(LookedUp(i)) /\ SF_smsVars(Answered(i)) /\ SF_smsVars(Inserted(i))

SpecRetry == InitRetry /\ [][NextRetry]_vars /\ FairRetry

CallsFor(r, id) == {k \in EventsOf(r) : log[r][k].id = id}

\* the ledger writes a run made for one message
WritesFor(r, id) == {k \in CallsFor(r, id) : IsInsert(log[r][k]) /\ log[r][k].out = "ok"}

\* the terminal state of a message in a run, read off the run's calls:
\* "in_progress" while the run still awaits a call for it
TerminalState(r, p) ==
  LET id == messages[r][p].id
      calls == CallsFor(r, id)
      posts == {k \in calls : IsPost(log[r][k])} IN
  IF \E k \in calls : IsLookup(log[r][k]) /\ log[r][k].out = "found" THEN "SKIPPED"
  ELSE IF \E k \in calls : Erred(log[r][k]) THEN "FAILURE"
  ELSE IF p = idx[r] /\ pc[r] \in {"lookup", "post", "insert"} THEN "in_progress"
  ELSE IF \E k \in posts : log[r][k].http = 200 THEN "UNSUBSCRIBED"
  ELSE IF \E k \in posts : log[r][k].http = 404 THEN "NOT_FOUND"
  ELSE IF SaysStop(messages[r][p].content) THEN "DUPLICATE"
  ELSE "IGNORED"

StatusOfState(state) ==
  CASE state = "UNSUBSCRIBED" -> "unsubscribed"
    [] state = "NOT_FOUND" -> "user_not_found"
    [] state = "DUPLICATE" -> "duplicate_stop"
    [] state = "IGNORED" -> "ignored"
    [] OTHER -> "none"

\* C21: every message handled in a run ends in exactly one of SKIPPED,
\* IGNORED, DUPLICATE, UNSUBSCRIBED, NOT_FOUND or FAILURE; the run makes
\* exactly one ledger write for it, with the matching status, in IGNORED,
\* DUPLICATE, UNSUBSCRIBED and NOT_FOUND, and none in SKIPPED and FAILURE.
C21_OneWritePerOutcome ==
  \A r \in Runs : \A p \in DOMAIN messages[r] :
    p <= idx[r] =>
    LET id == messages[r][p].id
        state == TerminalState(r, p)
        writes == WritesFor(r, id) IN
    /\ state \in {"SKIPPED", "FAILURE", "in_progress"} => writes = {}
    /\ state \in {"IGNORED", "DUPLICATE", "UNSUBSCRIBED", "NOT_FOUND"}
       => /\ Cardinality(writes) = 1
          /\ \A k \in writes : log[r][k].status = StatusOfState(state)
          /\ \E n \in DOMAIN sms_replies :
               /\ sms_replies[n].messageId = id
               /\ sms_replies[n].status = StatusOfState(state)
    /\ state = "in_progress" => p = idx[r]
    /\ (p < idx[r] \/ pc[r] = "done") => state \notin {"FAILURE", "in_progress"}

\* a run returned after a STOP that ended NOT_FOUND and a second STOP of the
\* same number that ended DUPLICATE
C21_Witness ==
  \E r \in Runs :
    /\ pc[r] = "done" /\ Len(messages[r]) = 2
    /\ TerminalState(r, 1) = "NOT_FOUND"
    /\ TerminalState(r, 2) = "DUPLICATE"
    /\ Cardinality(WritesFor(r, messages[r][2].id)) = 1

\* C22: no step of the pipeline modifies or deletes a ledger record: across
\* any sequence of runs the ledger only grows, and the messageId,
\* phoneNumber, content and status of a record stay as first written.
C22_LedgerAppendOnly ==
  [][/\ Len(sms_replies') \in {Len(sms_replies), Len(sms_replies) + 1}
     /\ \A n \in DOMAIN sms_replies :
          /\ sms_replies'[n].messageId = sms_replies[n].messageId
          /\ sms_replies'[n].phoneNumber = sms_replies[n].phoneNumber
          /\ sms_replies'[n].content = sms_replies[n].content
          /\ sms_replies'[n].status = sms_replies[n].status]_vars

\* two runs have each written a record, the second for the number of the
\* first
C22_Witness ==
  /\ Len(sms_replies) = 2
  /\ sms_replies[1].phoneNumber = sms_replies[2].phoneNumber
  /\ \E r1 \in Runs, r2 \in Runs :
       /\ r1 # r2
       /\ WritesFor(r1, sms_replies[1].messageId) # {}
       /\ WritesFor(r2, sms_replies[2].messageId) # {}

\* C23: with polling disabled in configuration, registering the plugin arms
\* no timer and registers no stop listener, so the scheduler never starts a
\* run; with polling enabled it arms exactly one fixed-interval timer and one
\* stop listener, which clears that timer.
C23_RegisterByConfig ==
  IF ~smsReplyPollEnabled
  THEN /\ pollJob = "none"
       /\ stopListeners = 0
       /\ \A r \in Runs : origin[r] # "tick" /\ ~ENABLED Tick(r)
  ELSE /\ stopListeners = 1
       /\ intervalMs = IntervalMinutes * 60 * 1000
       /\ pollJob = IF stopped THEN "cleared" ELSE "armed"
       /\ ~stopped => \A r \in Runs : NextSlot(r) => ENABLED Tick(r)

\* polling was disabled: a manually triggered run has returned, the server
\* has stopped, and no timer was ever there
C23_Witness ==
  /\ ~smsReplyPollEnabled
  /\ stopped
  /\ \E r \in Runs : pc[r] = "done" /\ origin[r] = "manual" /\ sms_replies # <<>>

\* the number of a sender in the form the pipeline uses
PlusNumber(sender) == <<"+">> \o Digits(sender)

\* the positions of a run's fetched list that ended UNSUBSCRIBED or NOT_FOUND
FinalizedStops(r) ==
  {p \in DOMAIN messages[r] :
     p <= idx[r] /\ TerminalState(r, p) \in {"UNSUBSCRIBED", "NOT_FOUND"}}

\* C26: at every point of a run the batch set holds exactly the normalized
\* numbers of the STOP messages this run has finalized as unsubscribed or
\* user_not_found; skipped, ignored, duplicate_stop and failed messages add
\* nothing, so a STOP of a number whose earlier STOP was ledgered by a
\* previous run gets a fresh backend call.
C26_BatchSetExact ==
  \A r \in Runs :
    /\ processedPhones[r] =
         {PlusNumber(messages[r][p].user_number) : p \in FinalizedStops(r)}
    /\ \A k \in EventsOf(r) :
         (/\ IsLookup(log[r][k]) /\ log[r][k].out = "absent"
          /\ SaysStop(TextOf(log[r][k].id).content)
          /\ \A p \in FinalizedStops(r) :
               p < PosOf(r, k) =>
                 Digits(messages[r][p].user_number)
                   # Digits(TextOf(log[r][k].id).user_number))
         => IF k = Len(log[r]) THEN pc[r] = "post" ELSE IsPost(log[r][k + 1])

\* a run that started after another had returned skipped the message that
\* run had unsubscribed and called the backend for a new STOP of that number
C26_Witness ==
  \E r1 \in Runs, r2 \in Runs :
    /\ r1 \in doneBefore[r2]
    /\ Len(messages[r2]) = 2
    /\ TerminalState(r2, 1) = "SKIPPED"
    /\ \E n \in DOMAIN sms_replies :
         /\ sms_replies[n].messageId = messages[r2][1].id
         /\ sms_replies[n].status = "unsubscribed"
         /\ sms_replies[n].phoneNumber = PlusNumber(messages[r2][2].user_number)
    /\ \E k \in CallsFor(r2, messages[r2][2].id) : IsPost(log[r2][k])

\* the backend calls any run made for a message
PostsFor(id) ==
  {e \in UNION {{log[r][k] : k \in EventsOf(r)} : r \in Runs} : IsPost(e) /\ e.id = id}

Returned200(e) == e.http = 200 /\ e.out # "network_error"

\* C27: the status in the ledger tells truthfully what happened for the
\* message, also when runs overlap: user_not_found only if no backend call
\* made for the message returned 200, unsubscribed only if one did,
\* duplicate_stop or ignored only if no backend call was made for it.
C27_StatusIsTruthful ==
  \A n \in DOMAIN sms_replies :
    LET rec == sms_replies[n]
        posts == PostsFor(rec.messageId) IN
    /\ rec.status = "user_not_found" => \A e \in posts : ~Returned200(e)
    /\ rec.status = "unsubscribed" => \E e \in posts : Returned200(e)
    /\ rec.status \in {"duplicate_stop", "ignored"} => posts = {}

\* the part of C27 on duplicate_stop alone, which does not depend on what the
\* backend answers
DuplicateStopMeansNoCall ==
  \A n \in DOMAIN sms_replies :
    sms_replies[n].status = "duplicate_stop" => PostsFor(sms_replies[n].messageId) = {}

\* a step of a STOP that was not in the batch set: the set changes only in
\* the step that writes the record, and a write that fails changes neither
\* the ledger nor the set
C28_WriteStep ==
  \A r \in Runs :
    /\ processedPhones'[r] # processedPhones[r]
       => /\ pc[r] = "insert"
          /\ pending[r].status \in {"unsubscribed", "user_not_found"}
          /\ sms_replies' = Append(sms_replies, pending[r])
          /\ processedPhones'[r] = processedPhones[r] \cup {pending[r].phoneNumber}
    /\ (pc[r] = "insert" /\ pc'[r] = "failed")
       => /\ sms_replies' = sms_replies
          /\ processedPhones'[r] = processedPhones[r]

\* the calls of such a STOP come in the order POST, insert; while the insert
\* is awaited, and after it failed, the number is not in the set
C28_CallOrder ==
  \A r \in Runs :
    /\ (pc[r] = "insert" /\ pending[r].status \in {"unsubscribed", "user_not_found"})
       => /\ pending[r].phoneNumber \notin processedPhones[r]
          /\ IsPost(log[r][Len(log[r])]) /\ Returned200(log[r][Len(log[r])])
               <=> pending[r].status = "unsubscribed"
          /\ WritesFor(r, pending[r].messageId) = {}
    /\ \A k \in EventsOf(r) :
         (IsInsert(log[r][k]) /\ log[r][k].status \in {"unsubscribed", "user_not_found"})
         => /\ k > 1 /\ IsPost(log[r][k - 1])
            /\ log[r][k - 1].id = log[r][k].id
            /\ log[r][k - 1].out = "json"
            /\ log[r][k - 1].http = IF log[r][k].status = "unsubscribed" THEN 200 ELSE 404
            /\ log[r][k].out # "ok"
               => /\ pc[r] = "failed"
                  /\ log[r][k].phone \notin processedPhones[r]
                  /\ WritesFor(r, log[r][k].id) = {}

\* C28: for a STOP message not in the batch set the steps come in the order
\* backend call, ledger write, batch-set add: no record is written before the
\* backend has answered, the number enters the set only after its record was
\* written, and if the write fails after a 200 answer the message stays
\* un-ledgered and its number stays out of the set.
C28_CallWriteAdd == [][C28_WriteStep]_vars /\ []C28_CallOrder

\* the backend answered 200, the write failed: no record, number not in the set
C28_Witness ==
  \E r \in Runs : \E k \in EventsOf(r) :
    /\ k > 1 /\ IsPost(log[r][k - 1]) /\ Returned200(log[r][k - 1])
    /\ IsInsert(log[r][k]) /\ log[r][k].out = "error"
    /\ pc[r] = "failed"
    /\ ~HasRecord(log[r][k].id)
    /\ log[r][k].phone \notin processedPhones[r]

\* any call any run made for a message
AnyCallFor(id) == \E r \in Runs : CallsFor(r, id) # {}

\* the message at position i of the feed is an un-ledgered STOP and every
\* backend call made for it so far has failed
BlockedAt(i) ==
  /\ SaysStop(received_text_messages[i].content)
  /\ ~HasRecord(received_text_messages[i].id)
  /\ \A e \in PostsFor(received_text_messages[i].id) : BackendFailed(e)

\* C29: head-of-line blocking: with the provider returning the batch in the
\* same order on every poll, while the backend call for an un-ledgered STOP
\* at position i fails in every run, no message after position i receives a
\* ledger record or a backend call, in any run.
C29_HeadOfLineBlocking ==
  \A i \in DOMAIN received_text_messages :
    BlockedAt(i)
    => \A j \in DOMAIN received_text_messages :
         j > i => /\ ~HasRecord(received_text_messages[j].id)
                  /\ ~AnyCallFor(received_text_messages[j].id)

\* two runs have both failed on the backend call for the first message, with
\* a second message behind it
C29_Witness ==
  /\ Len(received_text_messages) = 2
  /\ BlockedAt(1)
  /\ \A r \in Runs :
       /\ pc[r] = "failed" /\ error[r] = "backend_error"
       /\ Len(messages[r]) = 2
       /\ \E k \in CallsFor(r, received_text_messages[1].id) : BackendFailed(log[r][k])

\* Every awaited provider, ledger and backend call of a run settles, with
\* whatever outcome; nothing is assumed about the timer.
FairCalls == \A r \in Runs : WF_smsVars(RunStep(r))

SpecCalls == InitRetry /\ [][NextRetry]_vars /\ FairCalls

\* the calls of one kind a run made for a message
CallsOfKind(r, id, op) == {k \in CallsFor(r, id) : log[r][k].op = op}

\* the fetches a run made
Fetches(r) == {k \in EventsOf(r) : log[r][k].op = "fetch"}

\* one fetch, first of all; per fetched message at most one ledger lookup,
\* one backend call and one ledger write; no call for anything else
C30_BoundedCalls ==
  \A r \in Runs :
    /\ Cardinality(Fetches(r)) <= 1
    /\ pc[r] \in {"lookup", "post", "insert", "done", "failed"} => Fetches(r) = {1}
    /\ \A k \in EventsOf(r) \ Fetches(r) :
         /\ \E p \in DOMAIN messages[r] : messages[r][p].id = log[r][k].id
         /\ log[r][k].op \in {"lookup", "post", "insert"}
         /\ Cardinality(CallsOfKind(r, log[r][k].id, log[r][k].op)) = 1
    /\ Len(log[r]) <= 1 + 3 * Len(messages[r])

Returned(r) == pc[r] \in {"done", "failed"}

\* C30: every run of pollAndProcessReplies terminates (returns a result or
\* throws) provided each provider, backend and ledger call completes: it
\* performs one fetch and, per fetched message, at most one ledger lookup, at
\* most one backend call and at most one ledger write, with no retry inside
\* the run.
C30_RunTerminates ==
  /\ []C30_BoundedCalls
  /\ \A r \in Runs : InFlight(r) ~> Returned(r)

\* a run has returned after a lookup, a backend call and a write for one
\* message and a lookup and a write for another
C30_Witness ==
  \E r \in Runs :
    /\ pc[r] = "done"
    /\ Len(messages[r]) = 2
    /\ Len(log[r]) = 6
    /\ \E k \in EventsOf(r) : IsPost(log[r][k])

\* a call of validateSecret has returned valid=true
ReturnedValid(c) == validatePc[c] = "returned" /\ validateResult[c].valid

\* two calls were given the same contact and secret and read the same stored
\* secret, which is still the one stored (no storeVerificationDetails for the
\* contact since the first read)
SameSecret(c1, c2) ==
  /\ validateArgs[c1] = validateArgs[c2]
  /\ versionRead[c1] = versionRead[c2]
  /\ VersionOf(validateArgs[c1].contact) = versionRead[c1]

\* C24: an OTP can be used only once: for a stored, unexpired secret of a
\* contact, at most one validateSecret call with that secret ever returns
\* valid=true, including when two validations of the same secret run
\* concurrently.
C24_OtpUsedOnce ==
  \A c1 \in Calls, c2 \in Calls :
    (ReturnedValid(c1) /\ ReturnedValid(c2) /\ SameSecret(c1, c2)) => c1 = c2

\* the same for calls that do not overlap: the second read the store after
\* the first had written
OtpUsedOnceInSequence ==
  \A c1 \in Calls, c2 \in Calls :
    (/\ ReturnedValid(c1) /\ ReturnedValid(c2) /\ SameSecret(c1, c2)
     /\ document[c2].validated)
    => c1 = c2

\* the record stored for the contact of a call, and the four conditions of
\* a successful validation, on the store as it is
StoredFor(c) == user_contact_details[validateArgs[c].contact]
RecordExists(c) == StoredFor(c) # NoDocument
SecretMatches(c) == StoredFor(c).secret = validateArgs[c].secret
NotExpired(c) == now <= StoredFor(c).expiryTime
NotYetValidated(c) == ~StoredFor(c).validated

\* the first applicable error, in the documented order
FirstError(c) ==
  IF ~RecordExists(c) THEN "Contact Detail not found"
  ELSE IF ~SecretMatches(c) THEN "Invalid secret"
  ELSE IF ~NotExpired(c) THEN "Secret has expired"
  ELSE "Secret has already been used"

AllFour(c) ==
  RecordExists(c) /\ SecretMatches(c) /\ NotExpired(c) /\ NotYetValidated(c)

\* what the steps of a call do, the conditions being those of the record the
\* call's findOne reads in that step
C25_ValidateStep ==
  /\ \A c \in Calls :
       /\ (validatePc[c] = "findOne" /\ validatePc'[c] = "returned")
          => /\ ~AllFour(c)
             /\ validateResult'[c] = [valid |-> FALSE, error |-> FirstError(c)]
             /\ user_contact_details' = user_contact_details
       /\ (validatePc[c] = "findOne" /\ validatePc'[c] = "updateOne")
          => AllFour(c) /\ user_contact_details' = user_contact_details
       /\ (validatePc[c] = "updateOne" /\ validatePc'[c] = "returned")
          => /\ validateResult'[c] = [valid |-> TRUE, error |-> "null"]
             /\ user_contact_details'[validateArgs[c].contact].validated
  /\ \A k \in Contacts :
       (~user_contact_details[k].validated /\ user_contact_details'[k].validated)
       => \E c \in Calls :
            /\ validateArgs[c].contact = k
            /\ validatePc[c] = "updateOne" /\ validatePc'[c] = "returned"

\* a call that returned valid had read an existing, matching, unused record;
\* a call that returned an error never got to its updateOne
C25_ValidOnlyAfterChecks ==
  \A c \in Calls :
    /\ validateResult[c].valid
       => /\ validatePc[c] = "returned"
          /\ document[c] # NoDocument
          /\ document[c].secret = validateArgs[c].secret
          /\ ~document[c].validated
    /\ (validatePc[c] = "returned" /\ ~validateResult[c].valid)
       => validateResult[c].error \in
            {"Contact Detail not found", "Invalid secret", "Secret has expired",
             "Secret has already been used"}

\* C25: validateSecret returns valid=true and sets validated=true only when
\* a record for the contact exists, its secret equals the supplied secret, it
\* is not expired and it is not yet validated; in every other case it returns
\* valid=false with the first applicable error in the order 'Contact Detail
\* not found', 'Invalid secret', 'Secret has expired', 'Secret has already
\* been used', and leaves the stored record unchanged.
C25_ValidateSecretVerdict ==
  [][C25_ValidateStep]_vars /\ []C25_ValidOnlyAfterChecks

\* one call has validated a secret and a later call with the same secret has
\* been told that it has already been used
C25_Witness ==
  \E c1 \in Calls, c2 \in Calls :
    /\ ReturnedValid(c1)
    /\ validatePc[c2] = "returned"
    /\ validateArgs[c2] = validateArgs[c1]
    /\ validateResult[c2] = [valid |-> FALSE, error |-> "Secret has already been used"]

\* the most recent storeVerificationDetails call for a contact
LastStored(contact) ==
  storeLog[CHOOSE k \in DOMAIN storeLog :
             /\ storeLog[k].contact = contact
             /\ \A j \in DOMAIN storeLog : storeLog[j].contact = contact => j <= k]

\* some call of validateSecret was given this contact and secret and has got
\* past its checks
SecretPresented(contact, secret) ==
  \E c \in Calls :
    /\ validateArgs[c] = [contact |-> contact, secret |-> secret]
    /\ validatePc[c] \in {"updateOne", "returned", "threw"}
    /\ document[c] # NoDocument

\* C31: generating a new OTP for a contact replaces that contact's stored
\* verification record: after any generate and validate calls the contact's
\* record holds the most recently generated secret and expiry, with
\* validated=false until a validateSecret call given that secret has passed
\* its checks; validating an earlier secret does not mark it.
C31_LatestSecretUntilValidated ==
  /\ \A k \in Contacts :
       VersionOf(k) > 0
       => /\ user_contact_details[k].contact = k
          /\ user_contact_details[k].secret = LastStored(k).secret
          /\ user_contact_details[k].expiryTime = LastStored(k).expiryTime
          /\ user_contact_details[k].validated
             => SecretPresented(k, user_contact_details[k].secret)
  /\ \A k \in Contacts : VersionOf(k) = 0 => user_contact_details[k] = NoDocument

\* the part of it that does not depend on what validateSecret does: the
\* record is the one the latest generate stored
RecordIsLatestStored ==
  \A k \in Contacts :
    IF VersionOf(k) = 0 THEN user_contact_details[k] = NoDocument
    ELSE /\ user_contact_details[k].contact = k
         /\ user_contact_details[k].secret = LastStored(k).secret
         /\ user_contact_details[k].expiryTime = LastStored(k).expiryTime

\* a record marked validated whose secret nobody presented was marked by a
\* call whose findOne read the record of an earlier generate
StaleMarkOnlyByOverlap ==
  \A k \in Contacts :
    (/\ VersionOf(k) > 0
     /\ user_contact_details[k].validated
     /\ ~SecretPresented(k, user_contact_details[k].secret))
    => \E c \in Calls :
         /\ validateArgs[c].contact = k
         /\ validatePc[c] \in {"returned", "threw"}
         /\ document[c] # NoDocument
         /\ versionRead[c] < VersionOf(k)

====
